---- MODULE Spec2Model ----
(***************************************************************************)
(* Step segmentation of gait recordings (src/assets/helpers.py):           *)
(* check_transition, assign_step_number, check_step_completeness and       *)
(* process_steps, modelled as calls on bounded tables.  A call either      *)
(* returns a value or raises a Python exception; both outcomes are part of *)
(* the state.                                                              *)
(***************************************************************************)
EXTENDS Integers, Sequences, FiniteSets, TLC

VARIABLES pc, fn, args, df, result

vars == <<pc, fn, args, df, result>>

(***************************************************************************)
(* Bounds of the model.                                                    *)
(***************************************************************************)
MaxRows == 3
MaxSteps == 4
MaxStart == 2
MaxTable == 4
MaxFrame == 2

(***************************************************************************)
(* Program constants.                                                      *)
(***************************************************************************)
\* GaitState.UNDEFINED = 4: ankle-position codes are GaitState values 0..4
GaitStateMax == 4

Codes == 0..GaitStateMax

\* a condition label is the sequence of its "_"-separated words
Label(regime, activity) == <<regime, "_", activity>>

\* two keys of condition_mapping, one undefined and one defined activity
Conditions == {Label("SM", "UNDEFINED"), Label("SM", "WALKING")}

(***************************************************************************)
(* Outcomes of a call: a value, or an exception.                           *)
(***************************************************************************)
Ok(v) == [err |-> "none", val |-> v]

Raise(e) == [err |-> e, val |-> <<>>]

(***************************************************************************)
(* pandas Series operations used by the code.  A shifted or object Series  *)
(* holds cells [nan, v]; comparison results are plain boolean sequences.   *)
(***************************************************************************)
NaN == [nan |-> TRUE, v |-> 0]

Cell(x) == [nan |-> FALSE, v |-> x]

\* Series.shift(periods): row i takes the value of row i - periods, the first
\* rows become NaN
shift(s, periods) ==
  [i \in 1..Len(s) |-> IF i <= periods THEN NaN ELSE Cell(s[i - periods])]

\* Series == scalar
eq(s, x) == [i \in 1..Len(s) |-> s[i] = x]

\* Series.isin(values): values is a required positional argument
isin(s, posargs) ==
  IF Len(posargs) # 1 THEN Raise("TypeError")
  ELSE Ok([i \in 1..Len(s) |-> ~s[i].nan /\ s[i].v \in posargs[1]])

\* pat in label
Contains(label, pat) == \E i \in 1..Len(label) : label[i] = pat

\* Series.str.contains(pat): NaN stays NaN
str_contains(s, pat) ==
  [i \in 1..Len(s) |-> IF s[i].nan THEN NaN ELSE Cell(Contains(s[i].v, pat))]

\* ~Series of booleans
invert(s) == [i \in 1..Len(s) |-> Cell(~s[i].v)]

\* object Series & object Series: a NaN operand gives False
and_na(a, b) ==
  [i \in 1..Len(a) |-> IF a[i].nan \/ b[i].nan THEN FALSE ELSE a[i].v /\ b[i].v]

and_(a, b) == [i \in 1..Len(a) |-> a[i] /\ b[i]]

or_(a, b) == [i \in 1..Len(a) |-> a[i] \/ b[i]]

(***************************************************************************)
(* check_transition                                                        *)
(***************************************************************************)
\* the function with the prior codes 1, 2, 3 of its docstring passed to isin
check_transition_prior123(ankle_position_actual, condition) ==
  LET prior == isin(shift(ankle_position_actual, 1), <<{1, 2, 3}>>)
  IN  IF prior.err # "none" THEN prior
      ELSE Ok(or_(and_(eq(ankle_position_actual, 0), prior.val),
                  and_na(str_contains(shift(condition, 1), "UNDEFINED"),
                         invert(str_contains(shift(condition, 0), "UNDEFINED")))))

check_transition(ankle_position_actual, condition) ==
  LET prior == isin(shift(ankle_position_actual, 1), <<>>)
  IN  IF prior.err # "none" THEN prior
      ELSE Ok(or_(and_(eq(ankle_position_actual, 0), prior.val),
                  and_na(str_contains(shift(condition, 1), "UNDEFINED"),
                         invert(str_contains(shift(condition, 0), "UNDEFINED")))))

(***************************************************************************)
(* assign_step_number                                                      *)
(***************************************************************************)
\* a boolean adds as 1 or 0
AsInt(b) == IF b THEN 1 ELSE 0

\* Series.cumsum(): running sum, row i included
RECURSIVE cumsum(_)
cumsum(s) ==
  IF Len(s) = 0 THEN <<>>
  ELSE LET before == cumsum(SubSeq(s, 1, Len(s) - 1))
           last == IF Len(before) = 0 THEN 0 ELSE before[Len(before)]
       IN  Append(before, last + AsInt(s[Len(s)]))

\* Series + scalar
add(s, x) == [i \in 1..Len(s) |-> s[i] + x]

\* running sum that leaves row i out
assign_step_number_exclusive(transition, step_number) ==
  Ok([i \in 1..Len(transition) |->
        (IF i = 1 THEN 0 ELSE cumsum(transition)[i - 1]) + step_number])

\* no running sum: each row counts only its own flag
assign_step_number_own_flag(transition, step_number) ==
  Ok([i \in 1..Len(transition) |-> AsInt(transition[i]) + step_number])

assign_step_number(transition, step_number) ==
  Ok(add(cumsum(transition), step_number))

(***************************************************************************)
(* DataFrame operations.  A table maps each column name to its sequence of *)
(* cells; all columns have the same length.                                *)
(***************************************************************************)
NRows(d) == IF DOMAIN d = {} THEN 0 ELSE Len(d[CHOOSE c \in DOMAIN d : TRUE])

\* df[col]
getitem(d, col) == IF col \in DOMAIN d THEN Ok(d[col]) ELSE Raise("KeyError")

\* df[col] = series
setitem(d, col, s) ==
  [c \in (DOMAIN d) \cup {col} |-> IF c = col THEN s ELSE d[c]]

\* series[mask]: the cells whose mask is True, in row order
RECURSIVE masked(_, _)
masked(s, mask) ==
  IF Len(s) = 0 THEN <<>>
  ELSE LET before == masked(SubSeq(s, 1, Len(s) - 1), SubSeq(mask, 1, Len(s) - 1))
       IN  IF mask[Len(s)] THEN Append(before, s[Len(s)]) ELSE before

\* Series.unique(): the distinct values in order of first appearance
RECURSIVE unique(_)
unique(s) ==
  IF Len(s) = 0 THEN <<>>
  ELSE LET before == unique(SubSeq(s, 1, Len(s) - 1))
       IN  IF \E i \in 1..Len(before) : before[i] = s[Len(s)]
           THEN before ELSE Append(before, s[Len(s)])

\* Series.nunique(): the number of distinct values
nunique(s) == Cardinality({s[i] : i \in 1..Len(s)})

\* (array == list).all() for an array and a list of the same length
all_eq(a, b) == \A i \in 1..Len(a) : a[i] = b[i]

\* Python values whose type decides an operation
PyStr(s) == [type |-> "str", v |-> s]

PyInt(n) == [type |-> "int", v |-> n]

\* a - b
PySub(a, b) ==
  IF a.type = "int" /\ b.type = "int" THEN Ok(a.v - b.v) ELSE Raise("TypeError")

\* ~b of a Python bool is the integer -1 - b
PyInvertBool(b) == IF b THEN -2 ELSE -1

\* frame.iloc is the indexer object _iLocIndexer("iloc", frame)
iloc(frame) == [name |-> PyStr("iloc"), obj |-> frame]

\* frame.iloc[k].condition: the condition of row k, counted from 0, a
\* negative k counted from the end
iloc_condition(d, k) ==
  LET n == NRows(d)
      i == IF k < 0 THEN n + k + 1 ELSE k + 1
  IN  IF i < 1 \/ i > n THEN Raise("IndexError") ELSE Ok(d["condition"][i])

(***************************************************************************)
(* check_step_completeness                                                 *)
(***************************************************************************)
\* the codes of the rows of one step, in row order
step_codes(d, step, step_number_col, ankle_position_col) ==
  masked(d[ankle_position_col], eq(d[step_number_col], step))

\* line 129 with the reference row taken as .iloc[0].name - 1 of the rows of
\* step 1 and both negations logical: incomplete unless the codes are seen as
\* 1, 2, 3 and the reference row is UNDEFINED
three_codes_incomplete_first_row(d, step, step_number_col, ankle_position_col) ==
  LET differs == ~all_eq(unique(step_codes(d, step, step_number_col, ankle_position_col)),
                         <<1, 2, 3>>)
      first == {i \in 1..NRows(d) : d[step_number_col][i] = 1}
  IN  IF first = {} THEN Raise("IndexError")
      ELSE LET name == (CHOOSE i \in first : \A j \in first : i <= j) - 1
               cond == iloc_condition(d, name - 1)
           IN  IF cond.err # "none" THEN cond
               ELSE Ok(differs \/ ~Contains(cond.val, "UNDEFINED"))

\* line 129: the condition under which a step of 3 distinct codes is marked
\* incomplete
three_codes_incomplete(d, step, step_number_col, ankle_position_col) ==
  LET differs == ~all_eq(unique(step_codes(d, step, step_number_col, ankle_position_col)),
                         <<1, 2, 3>>)
      row == PySub(iloc(masked(d[step_number_col], eq(d[step_number_col], 1))).name,
                   PyInt(1))
  IN  IF row.err # "none" THEN row
      ELSE LET cond == iloc_condition(d, row.val)
           IN  IF cond.err # "none" THEN cond
               ELSE Ok(differs \/ PyInvertBool(Contains(cond.val, "UNDEFINED")) # 0)

\* df.loc[df[step_number_col] == step, "step_complete"] = False
mark_incomplete(d, step, step_number_col) ==
  setitem(d, "step_complete",
          [i \in 1..NRows(d) |->
             IF d[step_number_col][i] = step THEN FALSE ELSE d["step_complete"][i]])

\* lines 125-130: the loop over the steps still to visit
RECURSIVE step_loop(_, _, _, _)
step_loop(d, steps, step_number_col, ankle_position_col) ==
  IF Len(steps) = 0 THEN [err |-> "none", df |-> d]
  ELSE LET step == Head(steps)
           n == nunique(step_codes(d, step, step_number_col, ankle_position_col))
       IN  IF n < 3
           THEN step_loop(mark_incomplete(d, step, step_number_col), Tail(steps),
                          step_number_col, ankle_position_col)
           ELSE IF n = 3
           THEN LET c == three_codes_incomplete(d, step, step_number_col,
                                                ankle_position_col)
                IN  IF c.err # "none" THEN [err |-> c.err, df |-> d]
                    ELSE step_loop(IF c.val
                                   THEN mark_incomplete(d, step, step_number_col)
                                   ELSE d,
                                   Tail(steps), step_number_col, ankle_position_col)
           ELSE step_loop(d, Tail(steps), step_number_col, ankle_position_col)

\* the function with its steps visited in the given order; val is the
\* returned Series and df the table it was given, as the call leaves it
check_step_completeness_in_order(d, order, step_number_col, ankle_position_col) ==
  LET start == setitem(d, "step_complete", [i \in 1..NRows(d) |-> TRUE])
      end == step_loop(start, order, step_number_col, ankle_position_col)
  IN  IF end.err # "none"
      THEN [err |-> end.err, val |-> <<>>, df |-> end.df]
      ELSE [err |-> "none", val |-> end.df["step_complete"], df |-> end.df]

check_step_completeness(d, step_number_col, ankle_position_col) ==
  check_step_completeness_in_order(d, unique(d[step_number_col]),
                                   step_number_col, ankle_position_col)

(***************************************************************************)
(* process_steps                                                           *)
(***************************************************************************)
\* a statement of process_steps runs on the table the statements before it
\* left, unless one of them raised: r is [err, df], the exception
\* propagating (or "none") and the caller's table so far
Entered(d) == [err |-> "none", df |-> d]

\* df[out] = check_transition(df[position_col], df[condition_col])
assign_transition(r, out, position_col, condition_col) ==
  IF r.err # "none" THEN r
  ELSE LET p == getitem(r.df, position_col)
           c == getitem(r.df, condition_col)
       IN  IF p.err # "none" THEN [err |-> p.err, df |-> r.df]
           ELSE IF c.err # "none" THEN [err |-> c.err, df |-> r.df]
           ELSE LET t == check_transition(p.val, c.val)
                IN  IF t.err # "none" THEN [err |-> t.err, df |-> r.df]
                    ELSE [err |-> "none", df |-> setitem(r.df, out, t.val)]

\* df[out] = assign_step_number(df[transition_col], 0)
assign_steps(r, out, transition_col) ==
  IF r.err # "none" THEN r
  ELSE LET t == getitem(r.df, transition_col)
       IN  IF t.err # "none" THEN [err |-> t.err, df |-> r.df]
           ELSE LET s == assign_step_number(t.val, 0)
                IN  IF s.err # "none" THEN [err |-> s.err, df |-> r.df]
                    ELSE [err |-> "none", df |-> setitem(r.df, out, s.val)]

\* df[out] = check_step_completeness(df.copy(), step_number_col, position_col):
\* the working column is written to the copy
assign_complete(r, out, step_number_col, position_col) ==
  IF r.err # "none" THEN r
  ELSE LET c == check_step_completeness(r.df, step_number_col, position_col)
       IN  IF c.err # "none" THEN [err |-> c.err, df |-> r.df]
           ELSE [err |-> "none", df |-> setitem(r.df, out, c.val)]

\* lines 148-157, innermost first; df is the caller's table as the call
\* leaves it
process_steps(d, ankle_position_col_left, ankle_position_col_right, condition_col) ==
  assign_complete(
    assign_complete(
      assign_steps(
        assign_steps(
          assign_transition(
            assign_transition(Entered(d), "transition_left",
                              ankle_position_col_left, condition_col),
            "transition_right", ankle_position_col_right, condition_col),
          "step_number_l", "transition_left"),
        "step_number_r", "transition_right"),
      "step_complete_l", "step_number_l", ankle_position_col_left),
    "step_complete_r", "step_number_r", ankle_position_col_right)

(***************************************************************************)
(* The calls.  The initial state holds a function and its arguments, drawn *)
(* from the bounded tables; the one action of a function is its call.      *)
(* After it, df is the caller's table as the call leaves it and result the *)
(* value returned or the exception raised.                                 *)
(***************************************************************************)
Outcome(r) == [err |-> r.err, val |-> r.val]

After(r) == IF r.err = "none" THEN "returned" ELSE "raised"

\* the columns process_steps is told to read
RequiredColumns == {"ankle_position_left", "ankle_position_right", "condition"}

\* the columns process_steps adds
AddedColumns ==
  {"transition_left", "transition_right", "step_number_l", "step_number_r",
   "step_complete_l", "step_complete_r"}

Idle == pc = "idle" /\ result = Ok(<<>>)

InitTransition ==
  /\ Idle
  /\ fn = "check_transition"
  /\ df = <<>>
  /\ \E n \in 0..MaxRows :
       \E position \in [1..n -> Codes], condition \in [1..n -> Conditions] :
         args = [ankle_position_actual |-> position, condition |-> condition]

InitNumber ==
  /\ Idle
  /\ fn = "assign_step_number"
  /\ df = <<>>
  /\ \E n \in 0..MaxSteps :
       \E transition \in [1..n -> BOOLEAN], step_number \in (-MaxStart)..MaxStart :
         args = [transition |-> transition, step_number |-> step_number]

\* the table is the one process_steps hands over at line 154: its step
\* numbers count, from 0, the transitions that check_transition's docstring
\* defines for the position and condition columns
InitComplete ==
  /\ Idle
  /\ fn = "check_step_completeness"
  /\ \E n \in 0..MaxTable :
       \E position \in [1..n -> Codes], condition \in [1..n -> Conditions] :
         LET transition == check_transition_prior123(position, condition).val
         IN  df = [ankle_position_left |-> position,
                   condition |-> condition,
                   transition_left |-> transition,
                   step_number_l |-> assign_step_number(transition, 0).val]
  /\ args = [df |-> df,
             step_number_col |-> "step_number_l",
             ankle_position_col |-> "ankle_position_left"]

\* the table may lack any of the columns the call names
InitProcess ==
  /\ Idle
  /\ fn = "process_steps"
  /\ \E n \in 0..MaxFrame :
       \E left \in [1..n -> Codes], right \in [1..n -> Codes],
          condition \in [1..n -> Conditions], present \in SUBSET RequiredColumns :
         LET full == [ankle_position_left |-> left,
                      ankle_position_right |-> right,
                      condition |-> condition]
         IN  df = [c \in present |-> full[c]]
  /\ args = [df |-> df,
             ankle_position_col_left |-> "ankle_position_left",
             ankle_position_col_right |-> "ankle_position_right",
             condition_col |-> "condition"]

Init == InitTransition \/ InitNumber \/ InitComplete \/ InitProcess

CallCheckTransition ==
  /\ pc = "idle"
  /\ fn = "check_transition"
  /\ LET r == check_transition(args.ankle_position_actual, args.condition)
     IN  /\ result' = Outcome(r)
         /\ pc' = After(r)
  /\ UNCHANGED <<fn, args, df>>

CallAssignStepNumber ==
  /\ pc = "idle"
  /\ fn = "assign_step_number"
  /\ LET r == assign_step_number(args.transition, args.step_number)
     IN  /\ result' = Outcome(r)
         /\ pc' = After(r)
  /\ UNCHANGED <<fn, args, df>>

CallCheckStepCompleteness ==
  /\ pc = "idle"
  /\ fn = "check_step_completeness"
  /\ LET r == check_step_completeness(df, args.step_number_col, args.ankle_position_col)
     IN  /\ result' = Outcome(r)
         /\ pc' = After(r)
         /\ df' = r.df
  /\ UNCHANGED <<fn, args>>

CallProcessSteps ==
  /\ pc = "idle"
  /\ fn = "process_steps"
  /\ LET r == process_steps(df, args.ankle_position_col_left,
                            args.ankle_position_col_right, args.condition_col)
     IN  /\ result' = [err |-> r.err, val |-> IF r.err = "none" THEN r.df ELSE <<>>]
         /\ pc' = After(r)
         /\ df' = r.df
  /\ UNCHANGED <<fn, args>>

Next ==
  \/ CallCheckTransition
  \/ CallAssignStepNumber
  \/ CallCheckStepCompleteness
  \/ CallProcessSteps

Spec == Init /\ [][Next]_vars

SpecTransition == InitTransition /\ [][CallCheckTransition]_vars

SpecNumber == InitNumber /\ [][CallAssignStepNumber]_vars

SpecComplete == InitComplete /\ [][CallCheckStepCompleteness]_vars

SpecProcess == InitProcess /\ [][CallProcessSteps]_vars

(***************************************************************************)
(* Properties.                                                             *)
(***************************************************************************)
Called(f) == fn = f /\ pc # "idle"

HasUndefined(label) == Contains(label, "UNDEFINED")

SameOutcome(a, b) == a.err = b.err /\ (a.err = "none" => a.val = b.val)

\* the table a call was given, and the step groups of its left leg
Given == args.df

GivenRows == 1..NRows(Given)

StepValues == {Given["step_number_l"][i] : i \in GivenRows}

StepRows(s) == {i \in GivenRows : Given["step_number_l"][i] = s}

StepCodeSet(s) == {Given["ankle_position_left"][i] : i \in StepRows(s)}

\* the row immediately preceding the first row of step index 1
FirstRowOfStep1 == CHOOSE i \in StepRows(1) : \A j \in StepRows(1) : i <= j

ReferenceRowExists == StepRows(1) # {} /\ FirstRowOfStep1 > 1

ReferenceUndefined == HasUndefined(Given["condition"][FirstRowOfStep1 - 1])

\* C1: check_transition returns, without error, a boolean sequence as long as
\* its inputs with transition[i] true iff i is not the first row and either
\* position[i] is 0 after a prior code 1, 2 or 3, or the condition of row
\* i-1 contains UNDEFINED and that of row i does not.
C1_TransitionContract ==
  Called("check_transition") =>
    LET position == args.ankle_position_actual
        condition == args.condition
    IN  /\ result.err = "none"
        /\ Len(result.val) = Len(position)
        /\ \A i \in 1..Len(position) :
             result.val[i] <=>
               \/ i > 1 /\ position[i] = 0 /\ position[i - 1] \in {1, 2, 3}
               \/ i > 1 /\ HasUndefined(condition[i - 1]) /\ ~HasUndefined(condition[i])

\* C2: assign_step_number(t, k) returns a sequence as long as t with
\* step[i] = k + the number of true values in t[1..i].
C2_PrefixSum ==
  Called("assign_step_number") =>
    /\ result.err = "none"
    /\ Len(result.val) = Len(args.transition)
    /\ \A i \in 1..Len(args.transition) :
         result.val[i] =
           args.step_number + Cardinality({j \in 1..i : args.transition[j]})

C2_Witness ==
  /\ Called("assign_step_number")
  /\ pc = "returned"
  /\ args.step_number > 0
  /\ Len(args.transition) >= 3
  /\ args.transition[1]
  /\ ~args.transition[2]
  /\ args.transition[3]
  /\ result.val[3] = args.step_number + 2

\* C3: a step of exactly 3 distinct codes is marked COMPLETE iff its codes
\* are {1,2,3} and the condition of the row preceding the first row of step
\* 1 contains UNDEFINED.
C3_ThreeCodes ==
  Called("check_step_completeness") =>
    \A s \in StepValues :
      (Cardinality(StepCodeSet(s)) = 3 /\ ReferenceRowExists) =>
        /\ result.err = "none"
        /\ \A i \in StepRows(s) :
             result.val[i] <=> (StepCodeSet(s) = {1, 2, 3} /\ ReferenceUndefined)

\* C4: every row of a step of fewer than 3 distinct codes is marked
\* INCOMPLETE and every row of a step of more than 3 distinct codes is marked
\* COMPLETE, whatever the other steps and the condition column hold.
C4_FewOrMany ==
  Called("check_step_completeness") =>
    \A s \in StepValues :
      /\ Cardinality(StepCodeSet(s)) < 3 =>
           result.err = "none" /\ \A i \in StepRows(s) : ~result.val[i]
      /\ Cardinality(StepCodeSet(s)) > 3 =>
           result.err = "none" /\ \A i \in StepRows(s) : result.val[i]

\* C5: on an empty table each of the four functions finishes without an
\* error and gives empty flag, step-index and completeness sequences.
C5_EmptyInput ==
  /\ (Called("check_transition") /\ Len(args.ankle_position_actual) = 0) =>
       result.err = "none" /\ Len(result.val) = 0
  /\ (Called("assign_step_number") /\ Len(args.transition) = 0) =>
       result.err = "none" /\ Len(result.val) = 0
  /\ (Called("check_step_completeness") /\ NRows(Given) = 0) =>
       result.err = "none" /\ Len(result.val) = 0
  /\ (Called("process_steps") /\ RequiredColumns \subseteq DOMAIN Given
        /\ NRows(Given) = 0) =>
       /\ result.err = "none"
       /\ \A c \in AddedColumns : c \in DOMAIN df /\ Len(df[c]) = 0

\* C6: process_steps on a table that lacks a required column ends in an
\* error and leaves the caller's table as it was, none of the six derived
\* columns added.
C6_MalformedFailsWhole ==
  (Called("process_steps") /\ ~(RequiredColumns \subseteq DOMAIN Given)) =>
    /\ pc = "raised"
    /\ result.err # "none"
    /\ DOMAIN df = DOMAIN Given
    /\ \A c \in DOMAIN Given : df[c] = Given[c]
    /\ AddedColumns \cap DOMAIN df = {}

C6_Witness ==
  /\ Called("process_steps")
  /\ DOMAIN Given = {"ankle_position_left", "condition"}
  /\ NRows(Given) >= 1
  /\ pc = "raised"
  /\ DOMAIN df = DOMAIN Given
  /\ \A c \in DOMAIN Given : df[c] = Given[c]

\* C7: process_steps on a table with the three required columns returns
\* that table with exactly the six derived columns added, steps numbered
\* from 0, the raw columns, the row count and the row order unchanged and no
\* step_complete column.
C7_SixColumns ==
  (Called("process_steps") /\ RequiredColumns \subseteq DOMAIN Given) =>
    /\ result.err = "none"
    /\ DOMAIN result.val = DOMAIN Given \cup AddedColumns
    /\ "step_complete" \notin DOMAIN result.val
    /\ \A c \in DOMAIN Given : result.val[c] = Given[c]
    /\ \A c \in AddedColumns : Len(result.val[c]) = NRows(Given)
    /\ result.val["step_number_l"] =
         assign_step_number(result.val["transition_left"], 0).val
    /\ result.val["step_number_r"] =
         assign_step_number(result.val["transition_right"], 0).val
    /\ df = result.val

\* process_steps with the right-leg statement of each stage run first
process_steps_right_first(d, left_col, right_col, condition_col) ==
  assign_complete(
    assign_complete(
      assign_steps(
        assign_steps(
          assign_transition(
            assign_transition(Entered(d), "transition_right", right_col, condition_col),
            "transition_left", left_col, condition_col),
          "step_number_r", "transition_right"),
        "step_number_l", "transition_left"),
      "step_complete_r", "step_number_r", right_col),
    "step_complete_l", "step_number_l", left_col)

LeftColumns == {"transition_left", "step_number_l", "step_complete_l"}

RightColumns == {"transition_right", "step_number_r", "step_complete_r"}

\* the table process_steps makes of the given table with one column replaced
WithColumn(col, s) ==
  process_steps([Given EXCEPT ![col] = s], args.ankle_position_col_left,
                args.ankle_position_col_right, args.condition_col)

\* C9: the legs of process_steps do not interact: the three left-leg output
\* columns are the same for every right position column (and the right-leg
\* ones for every left position column), and running the right-leg stages
\* first gives the same six columns.
C9_LegsIndependent ==
  (Called("process_steps") /\ RequiredColumns \subseteq DOMAIN Given) =>
    /\ result.err = "none"
    /\ \A other \in [GivenRows -> Codes] :
         /\ WithColumn("ankle_position_right", other).err = "none"
         /\ \A c \in LeftColumns :
              WithColumn("ankle_position_right", other).df[c] = result.val[c]
         /\ WithColumn("ankle_position_left", other).err = "none"
         /\ \A c \in RightColumns :
              WithColumn("ankle_position_left", other).df[c] = result.val[c]
    /\ LET swapped == process_steps_right_first(Given, args.ankle_position_col_left,
                                                args.ankle_position_col_right,
                                                args.condition_col)
       IN  /\ swapped.err = "none"
           /\ \A c \in AddedColumns : swapped.df[c] = result.val[c]

\* C8: the step indices assign_step_number returns never decrease, and with
\* no transition at all every step index is the start value.
C8_Monotone ==
  Called("assign_step_number") =>
    /\ result.err = "none"
    /\ \A i \in 1..(Len(result.val) - 1) : result.val[i] <= result.val[i + 1]
    /\ (\A i \in 1..Len(args.transition) : ~args.transition[i]) =>
         \A i \in 1..Len(result.val) : result.val[i] = args.step_number

C8_Witness ==
  /\ Called("assign_step_number")
  /\ pc = "returned"
  /\ args.step_number < 0
  /\ Len(args.transition) >= 3
  /\ ~args.transition[1]
  /\ args.transition[2]
  /\ ~args.transition[3]
  /\ result.val[1] < result.val[2]
  /\ result.val[2] = result.val[3]

\* the given table with the codes of every step put in ascending order
SortedWithinSteps ==
  LET code == Given["ankle_position_left"]
      rank(i) == Cardinality({j \in StepRows(Given["step_number_l"][i]) : j <= i})
      rows(i) == StepRows(Given["step_number_l"][i])
      kth(i) == CHOOSE v \in Codes :
                  /\ Cardinality({j \in rows(i) : code[j] < v}) < rank(i)
                  /\ rank(i) <= Cardinality({j \in rows(i) : code[j] <= v})
  IN  [Given EXCEPT !["ankle_position_left"] = [i \in GivenRows |-> kth(i)]]

OrdersOf(k) == {p \in [1..k -> 1..k] : \A a, b \in 1..k : a # b => p[a] # p[b]}

====
